---- MODULE Spec2Model ----
(***************************************************************************)
(* ECG heartbeat detection of mne/preprocessing/ecg.py as a state machine: *)
(* find_ecg_events (segmented filtering, qrs_detector, remapping, event    *)
(* table), _ecg_segment_window and annotate_ecg.                           *)
(*                                                                         *)
(* Numbers.  Samples are small integers.  Every quantity the code holds as *)
(* a float (thresholds, heart rates, times) is an exact rational <<n, d>>  *)
(* with d > 0 in lowest terms; the window RMS, the one irrational          *)
(* quantity, is a fixed-point integer in units of 1 / RmsScale.            *)
(***************************************************************************)
EXTENDS Integers, Sequences, FiniteSets, TLC

(***************************************************************************)
(* Arithmetic helpers                                                      *)
(***************************************************************************)
Abs(x) == IF x < 0 THEN -x ELSE x

RECURSIVE Gcd(_, _)
Gcd(a, b) == IF b = 0 THEN a ELSE Gcd(b, a % b)

Rat(n, d) ==
    LET g == Gcd(Abs(n), Abs(d))
        s == IF d < 0 THEN -1 ELSE 1
    IN  <<(s * n) \div g, (s * d) \div g>>

RatInt(n) == <<n, 1>>
RatAdd(a, b) == Rat(a[1] * b[2] + b[1] * a[2], a[2] * b[2])
RatSub(a, b) == Rat(a[1] * b[2] - b[1] * a[2], a[2] * b[2])
RatMul(a, b) == Rat(a[1] * b[1], a[2] * b[2])
RatDiv(a, b) == Rat(a[1] * b[2], a[2] * b[1])
RatLt(a, b) == a[1] * b[2] < b[1] * a[2]
RatLeq(a, b) == a[1] * b[2] <= b[1] * a[2]
RatAbs(a) == <<Abs(a[1]), a[2]>>

\* int(x) of a non-negative rational: truncation
Trunc(a) == a[1] \div a[2]

\* round(x) of a non-negative rational: Python 3 rounds halves to even
Round(a) ==
    LET q == a[1] \div a[2]
        r == a[1] % a[2]
    IN  IF 2 * r < a[2] THEN q
        ELSE IF 2 * r > a[2] THEN q + 1
        ELSE IF q % 2 = 0 THEN q ELSE q + 1

\* floor of the square root, by bisection on lo <= sqrt(n) < hi
RECURSIVE ISqrtIn(_, _, _)
ISqrtIn(n, lo, hi) ==
    IF hi - lo <= 1 THEN lo
    ELSE LET mid == (lo + hi) \div 2
         IN  IF mid * mid <= n THEN ISqrtIn(n, mid, hi) ELSE ISqrtIn(n, lo, mid)

ISqrt(n) == ISqrtIn(n, 0, n + 1)

\* x < (y / 1) * sqrt(v) for integers x, y and v >= 0, decided on squares
LtTimesSqrt(x, y, v) ==
    IF y >= 0
    THEN x < 0 \/ x * x < y * y * v
    ELSE x < 0 /\ x * x > y * y * v

RECURSIVE SeqSum(_)
SeqSum(s) == IF s = <<>> THEN 0 ELSE Head(s) + SeqSum(Tail(s))

RECURSIVE SeqMax(_)
SeqMax(s) ==
    IF Len(s) = 1 THEN s[1]
    ELSE LET m == SeqMax(Tail(s)) IN IF s[1] >= m THEN s[1] ELSE m

\* s[lo:hi] of a Python sequence (0-based, half open, clipped to the end)
Slice(s, lo, hi) ==
    LET h == IF hi > Len(s) THEN Len(s) ELSE hi
    IN  IF lo >= h THEN <<>> ELSE [i \in 1..(h - lo) |-> s[lo + i]]

(***************************************************************************)
(* qrs_detector                                                            *)
(***************************************************************************)
\* fixed-point precision of the window RMS
RmsScale == 100

\* defaults of qrs_detector that find_ecg_events does not override
levels == <<5, 2>>
n_thresh == 3

\* l_freq = h_freq = None, as find_ecg_events calls qrs_detector: the filter
\* collaborator is asked for no band edge and hands the samples back
FilterData(x) == x

win_size(sfreq) == Round(Rat(60 * sfreq, 120))

\* np.max of a slice, which raises ValueError on an empty one
CanMax(s) == Len(s) > 0

Maxpt(ecg_abs, init) ==
    <<SeqMax(Slice(ecg_abs, 0, init)),
      SeqMax(Slice(ecg_abs, init, init * 2)),
      SeqMax(Slice(ecg_abs, init * 2, init * 3))>>

CanCalibrate(ecg_abs, init) ==
    /\ CanMax(Slice(ecg_abs, 0, init))
    /\ CanMax(Slice(ecg_abs, init, init * 2))
    /\ CanMax(Slice(ecg_abs, init * 2, init * 3))

\* np.arange(0.3, 1.1, 0.05): 0.30, 0.35, ..., 1.05
ThreshRuns(thresh_value) ==
    IF thresh_value.str = "auto"
    THEN [k \in 1..16 |-> Rat(5 + k, 20)]
    ELSE <<thresh_value.val>>

\* np.argmax: 0-based position of the first maximum
ArgMax(window) ==
    LET m == SeqMax(window)
    IN  (CHOOSE i \in 1..Len(window) :
            window[i] = m /\ \A j \in 1..(i - 1) : window[j] # m) - 1

\* np.sum(np.diff(mask)) of the 0/1 mask window > thresh1
NumCross(window, thresh1) ==
    LET mask == [i \in 1..Len(window) |->
                    IF RatLt(thresh1, RatInt(window[i])) THEN 1 ELSE 0]
        diff == [i \in 1..(Len(window) - 1) |-> mask[i + 1] - mask[i]]
    IN  SeqSum(diff)

SumSquared(window) == SeqSum([i \in 1..Len(window) |-> window[i] * window[i]])

\* np.sqrt(sum_squared(window) / window.size)
WindowRms(window) ==
    ISqrt((RmsScale * RmsScale * SumSquared(window)) \div Len(window))

\* the lists one pass of the while loop appends to; opened keeps the ii at
\* which each window was cut, which the code holds only while it runs
NoLists == [time |-> <<>>, numcross |-> <<>>, rms |-> <<>>, opened |-> <<>>]

Record(acc, window, thresh1, ii) ==
    [time     |-> Append(acc.time, ii + ArgMax(window)),
     numcross |-> Append(acc.numcross, NumCross(window, thresh1)),
     rms      |-> Append(acc.rms, WindowRms(window)),
     opened   |-> Append(acc.opened, ii)]

\* mutant: a window opened at window[0] >= thresh1
RECURSIVE ScanAtOrAbove(_, _, _, _, _)
ScanAtOrAbove(ecg_abs, thresh1, win, ii, acc) ==
    IF ii < Len(ecg_abs) - win
    THEN LET window == Slice(ecg_abs, ii, ii + win)
         IN  IF RatLeq(thresh1, RatInt(window[1]))
             THEN ScanAtOrAbove(ecg_abs, thresh1, win, ii + win,
                                Record(acc, window, thresh1, ii))
             ELSE ScanAtOrAbove(ecg_abs, thresh1, win, ii + 1, acc)
    ELSE acc

\* mutant: the scan resumed one sample after the start of a window
RECURSIVE ScanStepOne(_, _, _, _, _)
ScanStepOne(ecg_abs, thresh1, win, ii, acc) ==
    IF ii < Len(ecg_abs) - win
    THEN LET window == Slice(ecg_abs, ii, ii + win)
         IN  IF RatLt(thresh1, RatInt(window[1]))
             THEN ScanStepOne(ecg_abs, thresh1, win, ii + 1,
                              Record(acc, window, thresh1, ii))
             ELSE ScanStepOne(ecg_abs, thresh1, win, ii + 1, acc)
    ELSE acc

\* the while loop of one threshold: the three lists it appends to
RECURSIVE Scan(_, _, _, _, _)
Scan(ecg_abs, thresh1, win, ii, acc) ==
    IF ii < Len(ecg_abs) - win
    THEN LET window == Slice(ecg_abs, ii, ii + win)
         IN  IF RatLt(thresh1, RatInt(window[1]))
             THEN Scan(ecg_abs, thresh1, win, ii + win,
                       Record(acc, window, thresh1, ii))
             ELSE Scan(ecg_abs, thresh1, win, ii + 1, acc)
    ELSE acc

\* the lists as outlier rejection finds them: when the scan appended nothing,
\* rms and time get the entry 0.0 (and time becomes a float array), numcross
\* is left as it is
ScanLists(ecg_abs, thresh1, win) ==
    LET found == Scan(ecg_abs, thresh1, win, 0, NoLists)
        none  == Len(found.rms) = 0
    IN  [time     |-> IF none THEN <<0>> ELSE found.time,
         numcross |-> found.numcross,
         rms      |-> IF none THEN <<0>> ELSE found.rms,
         opened   |-> found.opened,
         dtype    |-> IF none THEN "float64" ELSE "int64"]

\* mutant: rms[i] <= rms_mean + rms_std * lv
RmsAtOrBelowThresh(rms, i, lv) ==
    LET n == Len(rms)
        S == SeqSum(rms)
        Q == SeqSum([j \in 1..n |-> rms[j] * rms[j]])
    IN  ~LtTimesSqrt(-((n * rms[i] - S) * lv[2]), -lv[1], n * Q - S * S)

\* rms[i] < rms_mean + rms_std * lv, with np.std the population deviation
RmsBelowThresh(rms, i, lv) ==
    LET n == Len(rms)
        S == SeqSum(rms)
        Q == SeqSum([j \in 1..n |-> rms[j] * rms[j]])
    IN  LtTimesSqrt((n * rms[i] - S) * lv[2], lv[1], n * Q - S * S)

Indices(s) == [i \in 1..Len(s) |-> i]

\* b = np.where(rms < rms_thresh)[0], 1-based here
RmsKept(rms, lv) == SelectSeq(Indices(rms), LAMBDA i : RmsBelowThresh(rms, i, lv))

\* np.array(numcross)[b] raises IndexError on an index past the end
CanIndex(s, b) == \A j \in 1..Len(b) : b[j] <= Len(s)

\* mutant: the crossing counts not looked at, ce = time[b]
RejectByRmsOnly(lists, lv, nt, n_samples_start) ==
    LET b == RmsKept(lists.rms, lv)
    IN  [ev    |-> [j \in 1..Len(b) |-> lists.time[b[j]] + n_samples_start],
         dtype |-> lists.dtype]

\* outlier rejection and shift: ce = time[b[a < n_thresh]] + n_samples_start
Reject(lists, lv, nt, n_samples_start) ==
    LET b    == RmsKept(lists.rms, lv)
        a    == [j \in 1..Len(b) |-> lists.numcross[b[j]]]
        keep == SelectSeq(Indices(b), LAMBDA j : a[j] < nt)
    IN  [ev    |-> [j \in 1..Len(keep) |-> lists.time[b[keep[j]]] + n_samples_start],
         dtype |-> lists.dtype]

\* 60. * len(cev) / (len(ecg) / float(sfreq)) for every candidate
Rates(clean_events, n_ecg, sfreq) ==
    [k \in 1..Len(clean_events) |->
        RatDiv(RatInt(60 * Len(clean_events[k].ev)), Rat(n_ecg, sfreq))]

InBand(rate) == RatLeq(rate, RatInt(160)) /\ RatLeq(RatInt(40), rate)

RECURSIVE SortRat(_)
SortRat(s) ==
    IF s = <<>> THEN <<>>
    ELSE LET h == Head(s)
             t == SortRat(Tail(s))
             lo == SelectSeq(t, LAMBDA x : RatLt(x, h))
             hi == SelectSeq(t, LAMBDA x : ~RatLt(x, h))
         IN  lo \o <<h>> \o hi

\* np.median: the middle value, or the mean of the two middle values
Median(s) ==
    LET t == SortRat(s)
        n == Len(t)
    IN  IF n % 2 = 1 THEN t[(n + 1) \div 2]
        ELSE RatDiv(RatAdd(t[n \div 2], t[n \div 2 + 1]), RatInt(2))

\* mutant: the median taken over every candidate's rate
IdealRateOfAll(rates) == Median(rates)

IdealRate(rates) ==
    LET idx == SelectSeq(Indices(rates), LAMBDA k : InBand(rates[k]))
    IN  IF Len(idx) > 0
        THEN Median([j \in 1..Len(idx) |-> rates[idx[j]]])
        ELSE RatInt(80)

\* mutant: the last of the minima
ArgMinLast(s) ==
    CHOOSE i \in 1..Len(s) :
        /\ \A j \in 1..Len(s) : RatLeq(s[i], s[j])
        /\ \A j \in (i + 1)..Len(s) : RatLt(s[i], s[j])

\* np.argmin: position of the first minimum (1-based here)
ArgMin(s) ==
    CHOOSE i \in 1..Len(s) :
        /\ \A j \in 1..Len(s) : RatLeq(s[i], s[j])
        /\ \A j \in 1..(i - 1) : RatLt(s[i], s[j])

BestCandidate(rates) ==
    LET ideal_rate == IdealRate(rates)
    IN  ArgMin([k \in 1..Len(rates) |-> RatAbs(RatSub(rates[k], ideal_rate))])

(***************************************************************************)
(* Optional values: None is the empty tuple, a value x is <<x>>            *)
(***************************************************************************)
None == <<>>
Some(x) == <<x>>
IsNone(o) == Len(o) = 0

(***************************************************************************)
(* Collaborators                                                           *)
(***************************************************************************)
\* _annotations_starts_stops(raw, ('edge', 'bad'), invert=True): the good
\* spans of n samples left by one bad span [bad_start, bad_start + bad_len)
AnnotationsStartsStops(n, bad_start, bad_len) ==
    LET before == IF bad_len > 0 /\ bad_start > 0
                  THEN <<<<0, bad_start>>>> ELSE <<>>
        after  == IF bad_len > 0 /\ bad_start + bad_len < n
                  THEN <<<<bad_start + bad_len, n>>>> ELSE <<>>
        segs   == IF bad_len = 0 THEN <<<<0, n>>>> ELSE before \o after
    IN  [onsets |-> [i \in 1..Len(segs) |-> segs[i][1]],
         ends   |-> [i \in 1..Len(segs) |-> segs[i][2]]]

\* annotations_from_events(events, sfreq, event_desc): first_samp defaults
\* to 0, so the onset is the event's sample index over sfreq
AnnotationsFromEvents(events, sfreq, desc) ==
    [i \in 1..Len(events) |->
        [onset       |-> Rat(events[i][1], sfreq),
         duration    |-> RatInt(0),
         description |-> desc]]

(***************************************************************************)
(* find_ecg_events                                                         *)
(***************************************************************************)
RECURSIVE Concatenate(_)
Concatenate(ss) == IF ss = <<>> THEN <<>> ELSE Head(ss) \o Concatenate(Tail(ss))

\* ecgs: every good segment filtered on its own
FilterSegments(data, starts, stops) ==
    [si \in 1..Len(starts) |-> FilterData(Slice(data, starts[si], stops[si]))]

\* mutant: the ramp of a segment ended one sample early, its last entry left 0
RECURSIVE RemapShortRamp(_, _)
RemapShortRamp(starts, stops) ==
    IF starts = <<>> THEN <<>>
    ELSE [k \in 1..(Head(stops) - Head(starts)) |->
             IF k < Head(stops) - Head(starts) THEN Head(starts) + k - 1 ELSE 0]
         \o RemapShortRamp(Tail(starts), Tail(stops))

\* mutant: every segment numbered from 0, np.arange(this_len)
RECURSIVE RemapFromZero(_, _)
RemapFromZero(starts, stops) ==
    IF starts = <<>> THEN <<>>
    ELSE [k \in 1..(Head(stops) - Head(starts)) |-> k - 1]
         \o RemapFromZero(Tail(starts), Tail(stops))

\* remap[offset:offset + this_len] = np.arange(start, stop), segment by segment
RECURSIVE Remap(_, _)
Remap(starts, stops) ==
    IF starts = <<>> THEN <<>>
    ELSE [k \in 1..(Head(stops) - Head(starts)) |-> Head(starts) + k - 1]
         \o Remap(Tail(starts), Tail(stops))

\* remap[ecg_events]
RemapEvents(remap, ev) == [i \in 1..Len(ev) |-> remap[ev[i] + 1]]

\* n_events / ((len(ecg) / sfreq - tstart) / 60.)
AveragePulse(n_events, n_ecg, sfreq, t0) ==
    RatDiv(RatInt(n_events),
           RatDiv(RatSub(Rat(n_ecg, sfreq), t0), RatInt(60)))

\* mutant: raw.first_samp left out
EventTableNoFirstSamp(ev, first, id) == [i \in 1..Len(ev) |-> <<ev[i], 0, id>>]

\* the N x 3 table [ecg_events + first_samp, zeros, event_id * ones].T
EventTable(ev, first, id) == [i \in 1..Len(ev) |-> <<ev[i] + first, 0, id>>]

\* out = (ecg_events, idx_ecg, average_pulse), plus (ecg,) on request
Out(table, idx, pulse, ecg2d, ret) ==
    IF ret THEN <<table, idx, pulse, Some(ecg2d)>> ELSE <<table, idx, pulse>>

(***************************************************************************)
(* _ecg_segment_window                                                     *)
(***************************************************************************)
\* mutant: the widening applied above 80 only
EcgSegmentWindowAbove80(heart_rate) ==
    LET m            == RatDiv(heart_rate, RatInt(60))
        epochs_start == RatDiv(Rat(-35, 100), m)
        epochs_end   == RatDiv(Rat(5, 10), m)
        c            == Rat(1, 10)
    IN  IF RatLt(RatInt(80), heart_rate)
        THEN <<RatSub(epochs_start, c), RatAdd(epochs_end, c)>>
        ELSE <<epochs_start, epochs_end>>

EcgSegmentWindow(heart_rate) ==
    LET m            == RatDiv(heart_rate, RatInt(60))
        epochs_start == RatDiv(Rat(-35, 100), m)
        epochs_end   == RatDiv(Rat(5, 10), m)
        c            == Rat(1, 10)
    IN  IF RatLeq(RatInt(80), heart_rate)
        THEN <<RatSub(epochs_start, c), RatAdd(epochs_end, c)>>
        ELSE <<epochs_start, epochs_end>>

(***************************************************************************)
(* annotate_ecg, what = 'heartbeats'                                       *)
(***************************************************************************)
\* mutant: the onsets shifted but not clamped at 0
HeartbeatsUnclamped(annot, heartbeat_onset, heartbeat_offset) ==
    LET heartbeat_duration == RatSub(heartbeat_offset, heartbeat_onset)
    IN  [i \in 1..Len(annot) |->
            [onset       |-> RatAdd(annot[i].onset, heartbeat_onset),
             duration    |-> heartbeat_duration,
             description |-> "ECG/Heartbeat"]]

Heartbeats(annot, heartbeat_onset, heartbeat_offset) ==
    LET heartbeat_duration == RatSub(heartbeat_offset, heartbeat_onset)
    IN  [i \in 1..Len(annot) |->
            LET shifted == RatAdd(annot[i].onset, heartbeat_onset)
            IN  [onset       |-> IF RatLt(shifted, RatInt(0))
                                 THEN RatInt(0) ELSE shifted,
                 duration    |-> heartbeat_duration,
                 description |-> "ECG/Heartbeat"]]

(***************************************************************************)
(* State                                                                   *)
(***************************************************************************)
VARIABLES
    entry,          \* the function the caller invoked
    pc,             \* the statement about to run; "returned" or "raised" at the end
    err,            \* the exception that ended the call, "" if none
    sfreq,          \* raw.info['sfreq']
    raw_data,       \* the channel find_ecg_events reads (or synthesizes)
    onsets, ends,   \* good spans handed over by _annotations_starts_stops
    first_samp,     \* raw.first_samp
    idx_ecg,        \* _get_ecg_channel_index: None when the channel is synthesized
    event_id, tstart, qrs_threshold, return_ecg, what,   \* arguments
    arg_levels, arg_n_thresh,   \* levels and n_thresh qrs_detector is called with
    ecg,            \* np.concatenate(ecgs)
    filtecg, ecg_abs, init_max, thresh_runs, clean_events,  \* qrs_detector locals
    scans,          \* per threshold: time, numcross, rms as outlier rejection finds them
    qrs_out,        \* what qrs_detector returned
    remap, ecg_events, average_pulse,                       \* find_ecg_events locals
    out,            \* what find_ecg_events returned
    heart_rate,     \* argument _ecg_segment_window was called with
    window,         \* what _ecg_segment_window returned
    annotations     \* what annotate_ecg returned

vars == <<entry, pc, err, sfreq, raw_data, onsets, ends, first_samp, idx_ecg,
          event_id, tstart, qrs_threshold, return_ecg, what, ecg, filtecg,
          ecg_abs, init_max, thresh_runs, clean_events, qrs_out, remap,
          ecg_events, average_pulse, out, heart_rate, window, annotations,
          arg_levels, arg_n_thresh, scans>>

recording == <<sfreq, raw_data, onsets, ends, first_samp, idx_ecg>>
arguments == <<entry, event_id, tstart, qrs_threshold, return_ecg, what,
               arg_levels, arg_n_thresh>>
qrs_locals == <<filtecg, ecg_abs, init_max, thresh_runs, clean_events, qrs_out,
                scans>>
find_locals == <<ecg, remap, ecg_events, average_pulse, out>>
annotate_locals == <<heart_rate, window, annotations>>

(***************************************************************************)
(* Bounded inputs                                                          *)
(***************************************************************************)
MaxLen == 5             \* longest signal of arbitrary samples
MaxBad == 1             \* longest annotated bad span, in samples
MaxHeartRate == 100     \* largest heart rate handed to _ecg_segment_window
MaxTail == 2            \* samples past the 2 * int(sfreq) calibration reads into

SamplingRates == {2}
Amps == {0, 1, -2, 3}
Lengths == 4..MaxLen
PulseLengths == 4..(MaxLen + 1)
Tstarts == {<<0, 1>>, <<1, 2>>}
FirstSamps == {0, 3}
EventIds == {999, 7}

Auto == [str |-> "auto", val |-> <<0, 1>>]
Fixed(f) == [str |-> "", val |-> f]
OtherString == [str |-> "otsu", val |-> <<0, 1>>]

Zeros(n) == [i \in 1..n |-> 0]
Signals == UNION {[1..n -> Amps] : n \in Lengths}
\* the smaller family: beats of amplitude 2 over a floor of 1, and flat lines
PulseAmps == {1, -2}
PulseSignals ==
    UNION {[1..n -> PulseAmps] : n \in PulseLengths}
        \cup {Zeros(n) : n \in PulseLengths}

\* sampling rates whose detection window holds 2 and 3 samples
WideRates == {4, 6}
\* start offsets that leave enough of these recordings to calibrate on
WideTstarts == {<<0, 1>>, <<1, 4>>}

\* a beat pattern of sfreq + 1 samples repeated over the recording
Beats(fs) ==
    {[i \in 1..n |-> pat[((i - 1) % (fs + 1)) + 1]] :
        pat \in [1..(fs + 1) -> PulseAmps], n \in (2 * fs + 1)..(2 * fs + MaxTail)}

\* values of levels and n_thresh a caller of qrs_detector passes
LevelValues == {<<5, 2>>, <<1, 2>>, <<0, 1>>, <<-1, 2>>}
NThreshValues == {3, 0, -1}

\* the usable samples sig with a bad span of bad_len samples put in at bad_start
WithBadSpan(sig, bad_start, bad_len) ==
    Slice(sig, 0, bad_start) \o Zeros(bad_len) \o Slice(sig, bad_start, Len(sig))

StartWith(e, fs, data, segs, first, idx, id, t0, th, ret, w, hr, lv, nt) ==
    /\ entry = e
    /\ pc = e
    /\ err = ""
    /\ sfreq = fs
    /\ raw_data = data
    /\ onsets = segs.onsets
    /\ ends = segs.ends
    /\ first_samp = first
    /\ idx_ecg = idx
    /\ event_id = id
    /\ tstart = t0
    /\ qrs_threshold = th
    /\ return_ecg = ret
    /\ what = w
    /\ arg_levels = lv
    /\ arg_n_thresh = nt
    /\ ecg = IF e = "qrs_detector" THEN data ELSE <<>>
    /\ filtecg = <<>>
    /\ ecg_abs = <<>>
    /\ init_max = None
    /\ thresh_runs = <<>>
    /\ clean_events = <<>>
    /\ scans = <<>>
    /\ qrs_out = None
    /\ remap = <<>>
    /\ ecg_events = <<>>
    /\ average_pulse = None
    /\ out = None
    /\ heart_rate = hr
    /\ window = None
    /\ annotations = None

\* find_ecg_events and annotate_ecg leave levels and n_thresh at their defaults
Start(e, fs, data, segs, first, idx, id, t0, th, ret, w, hr) ==
    StartWith(e, fs, data, segs, first, idx, id, t0, th, ret, w, hr,
              levels, n_thresh)

\* every signal on an unannotated recording, automatic threshold
InitDetector ==
    \E fs \in SamplingRates, sig \in Signals :
        Start("find_ecg_events", fs, sig,
              AnnotationsStartsStops(Len(sig), 0, 0),
              0, Some(0), 999, <<0, 1>>, Auto, FALSE, "", None)

\* every threshold policy and start offset
InitThresholds ==
    \E fs \in SamplingRates, sig \in PulseSignals, t0 \in Tstarts,
       th \in {Auto, Fixed(<<3, 5>>), OtherString} :
        Start("find_ecg_events", fs, sig,
              AnnotationsStartsStops(Len(sig), 0, 0),
              0, Some(0), 999, t0, th, FALSE, "", None)

\* one bad span anywhere in the recording, or over all of it; the recording
\* starts at sample 3 and detection half a second in
InitSegments ==
    \E fs \in SamplingRates, sig \in PulseSignals, t0 \in {<<1, 2>>},
       bad_len \in 1..MaxBad :
        \/ \E bad_start \in 0..Len(sig) :
              Start("find_ecg_events", fs, WithBadSpan(sig, bad_start, bad_len),
                    AnnotationsStartsStops(Len(sig) + bad_len, bad_start, bad_len),
                    3, Some(0), 999, t0, Auto, FALSE, "", None)
        \/ \E th \in {Auto, OtherString} :
              Start("find_ecg_events", fs, sig,
                    AnnotationsStartsStops(Len(sig), 0, Len(sig)),
                    3, Some(0), 999, t0, th, FALSE, "", None)

\* the callers' options: event code and first sample; channel and return_ecg;
\* annotate_ecg with either value of what
InitCalls ==
    \E fs \in SamplingRates, sig \in PulseSignals :
        \/ \E first \in FirstSamps, id \in EventIds :
              Start("find_ecg_events", fs, sig,
                    AnnotationsStartsStops(Len(sig), 0, 0),
                    first, Some(0), id, <<0, 1>>, Auto, FALSE, "", None)
        \/ \E idx \in {None, Some(0)}, ret \in BOOLEAN :
              Start("find_ecg_events", fs, sig,
                    AnnotationsStartsStops(Len(sig), 0, 0),
                    0, idx, 999, <<0, 1>>, Auto, ret, "", None)
        \/ \E first \in FirstSamps, w \in {"heartbeats", "r-peaks"} :
              Start("annotate_ecg", fs, sig,
                    AnnotationsStartsStops(Len(sig), 0, 0),
                    first, Some(0), 999, <<0, 1>>, Auto, FALSE, w, None)

\* detection windows of more than one sample
InitWide ==
    \E fs \in WideRates : \E sig \in Beats(fs), t0 \in WideTstarts,
                              th \in {Auto, Fixed(<<3, 5>>)} :
        Start("find_ecg_events", fs, sig,
              AnnotationsStartsStops(Len(sig), 0, 0),
              0, Some(0), 999, t0, th, FALSE, "", None)

\* qrs_detector called on its own with l_freq = h_freq = None, and with levels
\* and n_thresh of the caller's
InitQrs ==
    \E sig \in Beats(4), t0 \in {<<1, 4>>}, th \in {Auto, Fixed(<<3, 5>>)},
       lv \in LevelValues, nt \in NThreshValues :
        StartWith("qrs_detector", 4, sig,
                  AnnotationsStartsStops(Len(sig), 0, 0),
                  0, Some(0), 999, t0, th, FALSE, "", None, lv, nt)

InitWindow ==
    \E h \in 0..MaxHeartRate :
        Start("_ecg_segment_window", 2, <<>>, [onsets |-> <<>>, ends |-> <<>>],
              0, None, 999, <<0, 1>>, Auto, FALSE, "", Some(RatInt(h)))

Init ==
    \/ InitDetector \/ InitThresholds \/ InitSegments \/ InitCalls
    \/ InitWide \/ InitQrs \/ InitWindow

(***************************************************************************)
(* Steps                                                                   *)
(***************************************************************************)
Raise(e) == pc' = "raised" /\ err' = e

\* annotate_ecg, lines 316-325: the call of find_ecg_events
AnnotateCall ==
    /\ pc = "annotate_ecg"
    /\ pc' = "find_ecg_events"
    /\ UNCHANGED <<err, recording, arguments, qrs_locals, find_locals,
                   annotate_locals>>

\* find_ecg_events, lines 178-204
FindSegments ==
    /\ pc = "find_ecg_events"
    /\ IF Len(onsets) = 0
       THEN /\ Raise("ValueError: attempt to get an argmax of an empty sequence")
            /\ UNCHANGED ecg
       ELSE /\ ecg' = Concatenate(FilterSegments(raw_data, onsets, ends))
            /\ pc' = "qrs_detector"
            /\ UNCHANGED err
    /\ UNCHANGED <<recording, arguments, qrs_locals, remap, ecg_events,
                   average_pulse, out, annotate_locals>>

n_samples_start == Trunc(RatMul(RatInt(sfreq), tstart))

\* qrs_detector, lines 57-76
QrsCalibrate ==
    /\ pc = "qrs_detector"
    /\ filtecg' = FilterData(ecg)
    /\ ecg_abs' = Slice([i \in 1..Len(filtecg') |-> Abs(filtecg'[i])],
                        n_samples_start, Len(filtecg'))
    /\ IF CanCalibrate(ecg_abs', sfreq)
       THEN /\ init_max' = Some(Rat(SeqSum(Maxpt(ecg_abs', sfreq)), 3))
            /\ pc' = "thresh_runs"
            /\ UNCHANGED err
       ELSE /\ Raise("ValueError: zero-size array to reduction operation maximum")
            /\ UNCHANGED init_max
    /\ UNCHANGED <<recording, arguments, thresh_runs, clean_events, scans,
                   qrs_out, find_locals, annotate_locals>>

\* mutant: any string taken for "auto"
QrsThreshRunsAnyString ==
    /\ pc = "thresh_runs"
    /\ thresh_runs' = ThreshRuns(IF qrs_threshold.str = "" THEN qrs_threshold ELSE Auto)
    /\ pc' = "scan"
    /\ UNCHANGED <<err, recording, arguments, filtecg, ecg_abs, init_max,
                   clean_events, scans, qrs_out, find_locals, annotate_locals>>

\* qrs_detector, lines 78-83
QrsThreshRuns ==
    /\ pc = "thresh_runs"
    /\ IF qrs_threshold.str \in {"auto", ""}
       THEN /\ thresh_runs' = ThreshRuns(qrs_threshold)
            /\ pc' = "scan"
            /\ UNCHANGED err
       ELSE /\ Raise("ValueError: threshold value must be \"auto\" or a float")
            /\ UNCHANGED thresh_runs
    /\ UNCHANGED <<recording, arguments, filtecg, ecg_abs, init_max,
                   clean_events, scans, qrs_out, find_locals, annotate_locals>>

\* qrs_detector, lines 85-118
QrsScan ==
    /\ pc = "scan"
    /\ scans' =
          [k \in 1..Len(thresh_runs) |->
              ScanLists(ecg_abs, RatMul(init_max[1], thresh_runs[k]),
                        win_size(sfreq))]
    /\ IF \A k \in 1..Len(thresh_runs) :
             CanIndex(scans'[k].numcross, RmsKept(scans'[k].rms, arg_levels))
       THEN /\ clean_events' =
                  [k \in 1..Len(thresh_runs) |->
                      Reject(scans'[k], arg_levels, arg_n_thresh,
                             n_samples_start)]
            /\ pc' = "select"
            /\ UNCHANGED err
       ELSE /\ Raise("IndexError: index out of bounds")
            /\ UNCHANGED clean_events
    /\ UNCHANGED <<recording, arguments, filtecg, ecg_abs, init_max,
                   thresh_runs, qrs_out, find_locals, annotate_locals>>

\* qrs_detector, lines 120-132
QrsSelect ==
    /\ pc = "select"
    /\ qrs_out' = Some(clean_events[BestCandidate(Rates(clean_events, Len(ecg), sfreq))])
    /\ pc' = IF entry = "qrs_detector" THEN "returned" ELSE "remap"
    /\ UNCHANGED <<err, recording, arguments, filtecg, ecg_abs, init_max,
                   thresh_runs, clean_events, scans, find_locals,
                   annotate_locals>>

\* find_ecg_events, lines 212-221
FindRemap ==
    /\ pc = "remap"
    /\ remap' = Remap(onsets, ends)
    /\ IF qrs_out[1].dtype = "int64"
       THEN /\ ecg_events' = RemapEvents(remap', qrs_out[1].ev)
            /\ pc' = "events"
            /\ UNCHANGED err
       ELSE /\ Raise("IndexError: arrays used as indices must be of integer type")
            /\ UNCHANGED ecg_events
    /\ UNCHANGED <<recording, arguments, qrs_locals, ecg, average_pulse, out,
                   annotate_locals>>

\* find_ecg_events, lines 223-237
FindReturn ==
    /\ pc = "events"
    /\ average_pulse' = Some(AveragePulse(Len(ecg_events), Len(ecg), sfreq, tstart))
    /\ out' = Some(Out(EventTable(ecg_events, first_samp, event_id), idx_ecg,
                       average_pulse'[1], <<ecg>>, return_ecg))
    /\ pc' = IF entry = "annotate_ecg" THEN "annotate" ELSE "returned"
    /\ UNCHANGED <<err, recording, arguments, qrs_locals, ecg, remap, ecg_events,
                   annotate_locals>>

\* annotate_ecg, lines 327-349
AnnotateEcg ==
    /\ pc = "annotate"
    /\ LET events == out[1][1]
           hr_avg == out[1][3]
           annot  == AnnotationsFromEvents(events, sfreq, "ECG/R peak")
       IN  IF Len(events) = 0
           THEN /\ annotations' = Some(<<>>)
                /\ UNCHANGED <<heart_rate, window>>
           ELSE IF what = "r-peaks"
           THEN /\ annotations' = Some(annot)
                /\ UNCHANGED <<heart_rate, window>>
           ELSE /\ heart_rate' = Some(hr_avg)
                /\ window' = Some(EcgSegmentWindow(hr_avg))
                /\ annotations' = Some(Heartbeats(annot, window'[1][1], window'[1][2]))
    /\ pc' = "returned"
    /\ UNCHANGED <<err, recording, arguments, qrs_locals, find_locals>>

\* _ecg_segment_window called on its own, lines 262-274
WindowCall ==
    /\ pc = "_ecg_segment_window"
    /\ IF heart_rate[1][1] = 0
       THEN /\ Raise("ZeroDivisionError: float division by zero")
            /\ UNCHANGED window
       ELSE /\ window' = Some(EcgSegmentWindow(heart_rate[1]))
            /\ pc' = "returned"
            /\ UNCHANGED err
    /\ UNCHANGED <<recording, arguments, qrs_locals, find_locals, heart_rate,
                   annotations>>

Next ==
    \/ AnnotateCall
    \/ FindSegments
    \/ QrsCalibrate
    \/ QrsThreshRuns
    \/ QrsScan
    \/ QrsSelect
    \/ FindRemap
    \/ FindReturn
    \/ AnnotateEcg
    \/ WindowCall

Spec == Init /\ [][Next]_vars

(***************************************************************************)
(* Vocabulary of the properties                                            *)
(***************************************************************************)
IsZeroSignal(x) == Len(x) > 0 /\ \A i \in 1..Len(x) : x[i] = 0
Returned == pc = "returned"
Raised == pc = "raised"
Scanned == pc \notin {"annotate_ecg", "find_ecg_events", "qrs_detector",
                      "thresh_runs", "scan", "_ecg_segment_window"}
             /\ Len(clean_events) > 0
QrsReturned == qrs_out # None
FindReturned == out # None

\* the implied heart rate of candidate k, from the spec's formula
RateOf(k) == Rat(60 * Len(clean_events[k].ev) * sfreq, Len(ecg))
Candidates == 1..Len(clean_events)
Plausible == {k \in Candidates : RatLeq(RatInt(40), RateOf(k))
                                 /\ RatLeq(RateOf(k), RatInt(160))}

\* the j-th smallest rate among the candidates K, by counting
KthRate(K, j) ==
    LET v == CHOOSE k \in K :
                /\ Cardinality({i \in K : RatLt(RateOf(i), RateOf(k))}) < j
                /\ Cardinality({i \in K : RatLeq(RateOf(i), RateOf(k))}) >= j
    IN  RateOf(v)

TargetRate ==
    LET n == Cardinality(Plausible)
    IN  IF n = 0 THEN RatInt(80)
        ELSE IF n % 2 = 1 THEN KthRate(Plausible, (n + 1) \div 2)
        ELSE RatDiv(RatAdd(KthRate(Plausible, n \div 2),
                           KthRate(Plausible, n \div 2 + 1)), RatInt(2))

\* every candidate's distance from the target rate
Distances ==
    LET target == TargetRate
    IN  [k \in Candidates |-> RatAbs(RatSub(RateOf(k), target))]

\* the original sample a position c of the concatenated signal came from
SegmentLen(s) == ends[s] - onsets[s]
LaidBefore(s) == SeqSum([j \in 1..(s - 1) |-> SegmentLen(j)])
IndexMapAt(c) ==
    LET s == CHOOSE t \in 1..Len(onsets) :
                LaidBefore(t) <= c /\ c < LaidBefore(t) + SegmentLen(t)
    IN  onsets[s] + (c - LaidBefore(s))

(***************************************************************************)
(* C1: on an all-zero signal with thresh_value = "auto", every one of the  *)
(* 16 threshold candidates finds no genuine peak (only the degenerate      *)
(* entry, which is rejected), and the best-candidate selection completes   *)
(* with a defined, empty result and no error raised by qrs_detector.       *)
(***************************************************************************)
C1_ZeroSignalSelection ==
    (IsZeroSignal(ecg) /\ qrs_threshold.str = "auto" /\ init_max # None) =>
        /\ Scanned =>
              /\ Len(clean_events) = 16
              /\ \A k \in Candidates :
                    clean_events[k] = [ev |-> <<>>, dtype |-> "float64"]
        /\ pc \notin {"thresh_runs", "scan", "select"} =>
              qrs_out = Some([ev |-> <<>>, dtype |-> "float64"])

C1_Witness ==
    /\ IsZeroSignal(ecg)
    /\ qrs_threshold.str = "auto"
    /\ Len(clean_events) = 16
    /\ QrsReturned
    /\ qrs_out[1].ev = <<>>

(***************************************************************************)
(* C2: the target rate is the median of the candidate rates inside         *)
(* [40, 160] (80 when there is none), and qrs_detector returns the events  *)
(* of the candidate closest to the target, the earliest one among equals.  *)
(***************************************************************************)
C2_BestCandidate ==
    pc = "remap" =>
        LET dist == Distances
        IN  \E k \in Candidates :
                /\ qrs_out[1] = clean_events[k]
                /\ \A j \in Candidates : RatLeq(dist[k], dist[j])
                /\ \A j \in 1..(k - 1) : RatLt(dist[k], dist[j])

\* two different plausible rates to take the median of; the choice fell on a
\* later candidate, strictly closer than every earlier one, and a candidate
\* after it is exactly as close
C2_Witness ==
    /\ pc = "remap"
    /\ \E i, j \in Plausible : RateOf(i) # RateOf(j)
    /\ LET dist == Distances
       IN  \E k \in Candidates :
              /\ k > 1
              /\ qrs_out[1] = clean_events[k]
              /\ \A j \in 1..(k - 1) : RatLt(dist[k], dist[j])
              /\ \E j \in (k + 1)..Len(clean_events) : dist[j] = dist[k]

(***************************************************************************)
(* C3 as stated: a threshold string other than "auto" ends the call (here  *)
(* on a recording with usable segments) with the configuration error       *)
(* before anything was filtered or calibrated, so the outcome is the       *)
(* configuration error whatever the signal.                                *)
(***************************************************************************)
ConfigError == "ValueError: threshold value must be \"auto\" or a float"
OtherThreshString == qrs_threshold.str \notin {"auto", ""}

C3_ImmediateConfigError ==
    (OtherThreshString /\ Len(onsets) > 0 /\ (Raised \/ Returned)) =>
        /\ err = ConfigError
        /\ filtecg = <<>>
        /\ init_max = None

(***************************************************************************)
(* C3 amended: with a threshold string other than "auto" the call always   *)
(* ends in an error and no threshold candidate is ever scanned; the error  *)
(* is the configuration error exactly when the segments were filtered and  *)
(* the initial amplitude was calibrated first (more than 2 * int(sfreq)    *)
(* samples after the start offset), whatever the sample values, and it is  *)
(* the error of the failing earlier step otherwise.                        *)
(***************************************************************************)
C3_ConfigErrorAfterCalibration ==
    (OtherThreshString /\ entry = "find_ecg_events") =>
        /\ pc \in {"find_ecg_events", "qrs_detector", "thresh_runs", "raised"}
        /\ thresh_runs = <<>> /\ clean_events = <<>> /\ qrs_out = None
        /\ Raised =>
              /\ err = ConfigError <=>
                    /\ Len(onsets) > 0
                    /\ Len(ecg) - n_samples_start > 2 * sfreq
              /\ err = ConfigError =>
                    /\ filtecg = ecg /\ Len(filtecg) > 0
                    /\ init_max # None

C3_Witness ==
    /\ OtherThreshString
    /\ Raised
    /\ err = ConfigError
    /\ init_max # None
    /\ tstart # <<0, 1>>
    /\ \E i, j \in 1..Len(ecg) : ecg[i] # ecg[j]

(***************************************************************************)
(* C4: every row of the table find_ecg_events returns is                   *)
(* (indexMap[c] + first_samp, 0, event_id) for the event at position c of  *)
(* the concatenated signal, one row per event qrs_detector returned.       *)
(***************************************************************************)
C4_EventRows ==
    FindReturned =>
        LET table == out[1][1]
            cev   == qrs_out[1].ev
        IN  /\ Len(table) = Len(cev)
            /\ \A i \in 1..Len(table) :
                  table[i] = <<IndexMapAt(cev[i]) + first_samp, 0, event_id>>

\* an event past a bad span (so indexMap[c] # c) on a recording whose first
\* sample is not 0
C4_Witness ==
    /\ FindReturned
    /\ first_samp # 0
    /\ Len(onsets) = 2
    /\ \E i \in 1..Len(out[1][1]) :
          /\ qrs_out[1].ev[i] >= SegmentLen(1)
          /\ out[1][1][i][1] # qrs_out[1].ev[i] + first_samp

(***************************************************************************)
(* C5: the rows of the returned table are in increasing order of absolute  *)
(* sample index, for any start offset and any number of segments.          *)
(***************************************************************************)
C5_RowsIncreasing ==
    FindReturned =>
        LET table == out[1][1]
        IN  \A i \in 1..(Len(table) - 1) : table[i][1] < table[i + 1][1]

\* events on both sides of a bad span, detection started after tstart > 0
C5_Witness ==
    /\ FindReturned
    /\ tstart # <<0, 1>>
    /\ Len(onsets) = 2
    /\ \E i, j \in 1..Len(out[1][1]) :
          /\ qrs_out[1].ev[i] < SegmentLen(1)
          /\ qrs_out[1].ev[j] >= SegmentLen(1)

(***************************************************************************)
(* C6 as stated: with an empty list of usable segments the whole signal is *)
(* treated as one segment: it is filtered in full, the index map covers    *)
(* every sample, and detection goes on without an error at that step.      *)
(***************************************************************************)
ArgmaxError == "ValueError: attempt to get an argmax of an empty sequence"

C6_EmptySegmentsWholeSignal ==
    (Len(onsets) = 0 /\ entry # "_ecg_segment_window"
       /\ pc \notin {"annotate_ecg", "find_ecg_events"}) =>
        /\ err # ArgmaxError
        /\ ecg = FilterData(raw_data)
        /\ remap # <<>> => remap = [i \in 1..Len(raw_data) |-> i - 1]

(***************************************************************************)
(* C7 as stated: with return_ecg = True the fourth element of the returned *)
(* tuple is None when an actual ECG channel was found, and the signal      *)
(* array only when the channel was synthesized.                            *)
(***************************************************************************)
C7_ReturnEcgNoneForRealChannel ==
    (FindReturned /\ return_ecg) =>
        /\ Len(out[1]) = 4
        /\ idx_ecg # None => IsNone(out[1][4])
        /\ idx_ecg = None => out[1][4] = Some(<<ecg>>)

(***************************************************************************)
(* C8: for a heart rate h > 0 the window is onset = -0.35 / (h / 60) and   *)
(* offset = 0.5 / (h / 60), widened by 0.1 on both sides exactly when      *)
(* h >= 80; window(60) = (-0.35, 0.5), window(80) = (-0.3625, 0.475), and  *)
(* onset <= 0 <= offset.                                                   *)
(***************************************************************************)
C8_HeartbeatWindow ==
    window # None =>
        LET h     == heart_rate[1]
            w     == window[1]
            widen == IF RatLeq(RatInt(80), h) THEN Rat(1, 10) ELSE RatInt(0)
        IN  /\ RatLt(RatInt(0), h)
            /\ RatMul(RatAdd(w[1], widen), h) = RatInt(-21)
            /\ RatMul(RatSub(w[2], widen), h) = RatInt(30)
            /\ h = RatInt(60) => w = <<Rat(-35, 100), Rat(5, 10)>>
            /\ h = RatInt(80) => w = <<Rat(-3625, 10000), Rat(475, 1000)>>
            /\ RatLeq(w[1], RatInt(0)) /\ RatLeq(RatInt(0), w[2])

C8_Witness ==
    /\ entry = "_ecg_segment_window"
    /\ Returned
    /\ heart_rate = Some(RatInt(80))
    /\ window # None

(***************************************************************************)
(* C9: every heartbeat annotation starts at max(0, rPeakTime + window      *)
(* onset), never before 0, and all of them last window offset - window     *)
(* onset, the clamped ones included.                                       *)
(***************************************************************************)
HeartbeatsReturned ==
    entry = "annotate_ecg" /\ Returned /\ what = "heartbeats" /\ window # None

RPeakTime(i) == Rat(out[1][1][i][1], sfreq)

C9_HeartbeatAnnotations ==
    HeartbeatsReturned =>
        LET annot == annotations[1]
            w     == window[1]
        IN  /\ Len(annot) = Len(out[1][1])
            /\ \A i \in 1..Len(annot) :
                  LET t == RatAdd(RPeakTime(i), w[1])
                  IN  /\ RatLeq(RatInt(0), annot[i].onset)
                      /\ RatLeq(t, annot[i].onset)
                      /\ annot[i].onset = t \/ annot[i].onset = RatInt(0)
                      /\ annot[i].duration = RatSub(w[2], w[1])

\* one annotation clamped to 0 and a later one left where it was
C9_Witness ==
    /\ HeartbeatsReturned
    /\ \E i, j \in 1..Len(annotations[1]) :
          /\ RatLt(RatAdd(RPeakTime(i), window[1][1]), RatInt(0))
          /\ annotations[1][i].onset = RatInt(0)
          /\ RatLt(RatInt(0), annotations[1][j].onset)

(***************************************************************************)
(* C10 as stated: when detection finds no event, annotate_ecg returns an   *)
(* empty annotation set for both values of what and computes no window;    *)
(* the window is only ever computed from a heart rate of at least one      *)
(* event.                                                                  *)
(***************************************************************************)
C10_NoEventsEmptyAnnotations ==
    entry = "annotate_ecg" =>
        /\ (QrsReturned /\ qrs_out[1].ev = <<>> /\ (Returned \/ Raised)) =>
              /\ Returned
              /\ annotations = Some(<<>>)
              /\ window = None
        /\ window # None =>
              /\ Len(out[1][1]) >= 1
              /\ RatLt(RatInt(0), heart_rate[1])

(***************************************************************************)
(* Vocabulary of the per-candidate scan                                    *)
(***************************************************************************)
ScanDone == Len(scans) > 0
Threshold(k) == RatMul(init_max[1], thresh_runs[k])
Above(k, p) == RatLt(Threshold(k), RatInt(ecg_abs[p + 1]))
WinSize == win_size(sfreq)
NumWindows(k) == Len(scans[k].opened)
\* the 0-based positions of the j-th window of candidate k
WindowAt(k, j) == scans[k].opened[j]..(scans[k].opened[j] + WinSize - 1)
RisingEdges(k, j) ==
    Cardinality({p \in WindowAt(k, j) :
                    p + 1 \in WindowAt(k, j) /\ ~Above(k, p) /\ Above(k, p + 1)})

(***************************************************************************)
(* C11 as stated: the crossing count recorded for a detection window is    *)
(* the number of places in the window where the above-threshold mask goes  *)
(* from 0 to 1, hence never negative, and k for a window that drops below  *)
(* the threshold and rises above it again k times.                         *)
(***************************************************************************)
C11_CrossingCountRisingEdges ==
    ScanDone =>
        \A k \in 1..Len(scans) : \A j \in 1..NumWindows(k) :
            /\ scans[k].numcross[j] = RisingEdges(k, j)
            /\ scans[k].numcross[j] >= 0

(***************************************************************************)
(* C12 as stated: when outlier rejection is applied, the event indices,    *)
(* the crossing counts and the window RMS values of a candidate have the   *)
(* same length; after a scan that found no peak each of the three holds    *)
(* one degenerate entry (index 0, RMS 0) and the candidate's result is     *)
(* that one entry with index 0.                                            *)
(***************************************************************************)
NoPeak(k) == NumWindows(k) = 0

C12_ListsEqualLength ==
    (ScanDone /\ Len(clean_events) > 0) =>
        \A k \in 1..Len(scans) :
            /\ Len(scans[k].time) = Len(scans[k].rms)
            /\ Len(scans[k].numcross) = Len(scans[k].rms)
            /\ NoPeak(k) =>
                  /\ scans[k].time = <<0>>
                  /\ scans[k].rms = <<0>>
                  /\ Len(clean_events[k].ev) = 1
                  /\ clean_events[k].ev[1] - n_samples_start = 0

(***************************************************************************)
(* C13: outlier rejection keeps exactly the peaks whose window RMS is      *)
(* strictly below rmsMean + levels * rmsStd (mean and population standard  *)
(* deviation over the candidate's peaks) and whose crossing count is       *)
(* strictly below n_thresh, in scan order, each shifted by the start       *)
(* offset.  With n peaks, dev_i = n * rms_i - sum(rms) and                 *)
(* D = sum of dev_j ^ 2, rms_i < mean + (l1 / l2) * std reads              *)
(* dev_i * l2 < l1 * sqrt(D / n).                                          *)
(***************************************************************************)
Dev(r, i) == Len(r) * r[i] - SeqSum(r)
SumSqDev(r) == SeqSum([j \in 1..Len(r) |-> Dev(r, j) * Dev(r, j)])

\* the positions of rms under the limit
RmsOkSet(r) ==
    LET n == Len(r)
        S == SeqSum(r)
        D == SumSqDev(r)
        y == arg_levels[1]
    IN  {i \in 1..n :
            LET x == (n * r[i] - S) * arg_levels[2]
            IN  IF x < 0 THEN y >= 0 \/ x * x * n > y * y * D
                ELSE y >= 0 /\ x * x * n < y * y * D}

RmsOk(k, i) == i \in RmsOkSet(scans[k].rms)
CountOk(k, i) == scans[k].numcross[i] < arg_n_thresh
KeptPeaks(k) ==
    LET ok == RmsOkSet(scans[k].rms)
    IN  {i \in 1..NumWindows(k) : i \in ok /\ CountOk(k, i)}

C13_OutlierRejection ==
    pc = "select" =>
        \A k \in 1..Len(scans) :
            LET kept == KeptPeaks(k)
                ev   == clean_events[k].ev
            IN  /\ Len(ev) = Cardinality(kept)
                /\ \A m \in 1..Len(ev) :
                      \E i \in kept :
                          /\ Cardinality({h \in kept : h <= i}) = m
                          /\ ev[m] = scans[k].time[i] + n_samples_start

\* after a start offset, one candidate lost a peak to the RMS limit and kept
\* others, another lost a peak of admissible RMS to the crossing limit
C13_Witness ==
    /\ pc = "select"
    /\ n_samples_start > 0
    /\ \E k \in 1..Len(scans) :
          /\ \E i \in 1..NumWindows(k) : ~RmsOk(k, i)
          /\ Cardinality(KeptPeaks(k)) >= 2
    /\ \E k \in 1..Len(scans) :
          \E i \in 1..NumWindows(k) : RmsOk(k, i) /\ ~CountOk(k, i)

(***************************************************************************)
(* C14: in the scan of one candidate a window is opened at i only when     *)
(* signal[i] is strictly above the threshold, its peak is i + argmax of    *)
(* the window, and the scan resumes at i + windowSize (at i + 1 where no   *)
(* window is opened); so the windows are pairwise disjoint, lie inside the *)
(* post-offset signal, and the peak indices are strictly increasing.       *)
(***************************************************************************)
Sample(p) == ecg_abs[p + 1]
LastStart == Len(ecg_abs) - WinSize - 1

C14_ScanWindows ==
    pc = "select" =>
        \A k \in 1..Len(scans) :
            LET o == scans[k].opened
                t == scans[k].time
            IN  /\ \A j \in 1..Len(o) :
                      /\ Above(k, o[j])
                      /\ 0 <= o[j] /\ o[j] + WinSize <= Len(ecg_abs)
                      /\ t[j] \in WindowAt(k, j)
                      /\ \A p \in WindowAt(k, j) :
                            /\ Sample(p) <= Sample(t[j])
                            /\ p < t[j] => Sample(p) < Sample(t[j])
                      /\ j < Len(o) =>
                            /\ o[j] + WinSize <= o[j + 1]
                            /\ t[j] < t[j + 1]
                \* a sample above the threshold is passed over only inside a
                \* window, or where no full window is left
                /\ \A p \in 0..LastStart :
                      Above(k, p) => \E j \in 1..Len(o) : p \in WindowAt(k, j)

\* windows of three samples: one candidate with two windows and samples
\* passed over between them, one with a peak after the first sample of its
\* window
C14_Witness ==
    /\ pc = "select"
    /\ WinSize = 3
    /\ \E k \in 1..Len(scans) :
          \E j \in 1..(NumWindows(k) - 1) :
              scans[k].opened[j] + WinSize < scans[k].opened[j + 1]
    /\ \E k \in 1..Len(scans) :
          \E j \in 1..NumWindows(k) : scans[k].time[j] > scans[k].opened[j]

(***************************************************************************)
(* C15: for a non-empty list of ordered, non-overlapping segments the      *)
(* index map is as long as the segments together, which is the length of   *)
(* the concatenated filtered signal, and it sends the k-th position of a   *)
(* segment [start, stop) to start + k: strictly increasing and injective   *)
(* within each segment.                                                    *)
(***************************************************************************)
RemapBuilt == Len(remap) > 0
Segments == 1..Len(onsets)
TotalLen == SeqSum([j \in Segments |-> SegmentLen(j)])
\* the positions of the concatenated signal that segment sg occupies
Laid(sg) == LaidBefore(sg)..(LaidBefore(sg) + SegmentLen(sg) - 1)

C15_IndexMap ==
    RemapBuilt =>
        /\ Len(onsets) > 0
        /\ Len(remap) = TotalLen
        /\ Len(remap) = Len(ecg)
        /\ \A sg \in Segments :
              /\ \A c \in Laid(sg) :
                    remap[c + 1] = onsets[sg] + (c - LaidBefore(sg))
              /\ \A c, d \in Laid(sg) :
                    /\ c < d => remap[c + 1] < remap[d + 1]
                    /\ c # d => remap[c + 1] # remap[d + 1]

\* two segments with a bad span between them, the second starting past 0
C15_Witness ==
    /\ RemapBuilt
    /\ Len(onsets) = 2
    /\ SegmentLen(1) >= 2 /\ SegmentLen(2) >= 2
    /\ onsets[2] > ends[1]
    /\ remap[SegmentLen(1) + 1] = onsets[2]

(***************************************************************************)
(* C16: whenever some threshold candidate has an implied heart rate inside *)
(* [40, 160], the candidate qrs_detector selects has one too; a candidate  *)
(* outside the band, a zero-event one included, is selected only when no   *)
(* candidate is inside it.                                                 *)
(***************************************************************************)
Selected == {k \in Candidates : clean_events[k] = qrs_out[1]}

C16_SelectedInBand ==
    (QrsReturned /\ Plausible # {}) =>
        /\ Selected # {}
        /\ Selected \subseteq Plausible

\* candidates inside the band next to zero-event candidates and to candidates
\* with events but too slow a rate; the choice is not the first candidate
C16_Witness ==
    /\ QrsReturned
    /\ Plausible # {}
    /\ 1 \notin Plausible
    /\ \E k \in Candidates \ Plausible : Len(clean_events[k].ev) = 0
    /\ \E k \in Candidates \ Plausible : Len(clean_events[k].ev) > 0

(***************************************************************************)
(* C17: a candidate whose lists hold one entry at outlier rejection (one   *)
(* recorded peak, or the degenerate entry) ends with no event, whatever    *)
(* levels and n_thresh are: the deviation is 0 and the one RMS is not      *)
(* strictly below the mean.  A fixed-threshold detection with one window   *)
(* therefore returns no event.                                             *)
(***************************************************************************)
FixedThreshold == qrs_threshold.str = ""

C17_SinglePeakRejected ==
    (ScanDone /\ Len(clean_events) > 0) =>
        /\ \A k \in 1..Len(scans) :
              Len(scans[k].rms) = 1 => clean_events[k].ev = <<>>
        /\ (FixedThreshold /\ QrsReturned /\ NumWindows(1) <= 1) =>
              qrs_out[1].ev = <<>>

\* qrs_detector called with a fixed threshold and levels, n_thresh other than
\* the defaults; the scan opened one window, on a genuine peak
C17_Witness ==
    /\ entry = "qrs_detector"
    /\ FixedThreshold
    /\ arg_levels # levels
    /\ arg_n_thresh # n_thresh
    /\ QrsReturned
    /\ Len(scans) = 1
    /\ NumWindows(1) = 1
    /\ scans[1].rms[1] > 0
    /\ qrs_out[1].ev = <<>>

====
